---------------------------- MODULE Spec2Model ----------------------------
(***************************************************************************)
(* Flask-Servatus: flask_servatus/storages/__init__.py                     *)
(*                                                                         *)
(* Storage / FileSystemStorage as a state machine over a POSIX file tree.  *)
(* A str is a sequence of one-character strings, so "d/a.txt" is           *)
(* <<"d", "/", "a", ".", "t", "x", "t">>; the path functions of os.path,   *)
(* flask.safe_join and werkzeug.secure_filename are computed character by  *)
(* character, as the library code computes them.                           *)
(***************************************************************************)
EXTENDS Integers, Sequences, FiniteSets, TLC

VARIABLES
    fs,       \* the file tree: absolute path -> [kind, data, mode, ino]
    umask,    \* the process-wide file mode creation mask
    config,   \* FileSystemStorage.__init__: the permission modes
    proc      \* per thread: the running call, its locals and its position

vars == <<fs, umask, config, proc>>

-----------------------------------------------------------------------------
(* Bounds of the model *)

\* Longest name drawn as the argument of a call in the path specifications.
MaxNameLen == 4

\* Length of the non-empty content handed to save and _save.
MaxContentLen == 2


-----------------------------------------------------------------------------
(* str helpers *)

Last(s) == s[Len(s)]

ButLast(s) == SubSeq(s, 1, Len(s) - 1)

StartsWith(s, pre) ==
    Len(s) >= Len(pre) /\ SubSeq(s, 1, Len(pre)) = pre

\* str.rfind(c) + 1: the 1-based index of the last c in s, 0 when absent.
RFind(s, c) ==
    LET hits == {i \in 1..Len(s) : s[i] = c}
    IN  IF hits = {} THEN 0 ELSE CHOOSE i \in hits : \A j \in hits : j <= i

\* str.find(c) + 1.
Find(s, c) ==
    LET hits == {i \in 1..Len(s) : s[i] = c}
    IN  IF hits = {} THEN 0 ELSE CHOOSE i \in hits : \A j \in hits : i <= j

\* str.split(c): the pieces between the separators, empty pieces kept.
RECURSIVE SplitOn(_, _)
SplitOn(s, c) ==
    LET i == Find(s, c)
    IN  IF i = 0 THEN <<s>>
        ELSE <<SubSeq(s, 1, i - 1)>> \o SplitOn(SubSeq(s, i + 1, Len(s)), c)

\* sep.join(pieces)
RECURSIVE JoinWith(_, _)
JoinWith(sep, pieces) ==
    IF pieces = <<>> THEN <<>>
    ELSE IF Len(pieces) = 1 THEN pieces[1]
    ELSE pieces[1] \o sep \o JoinWith(sep, Tail(pieces))

\* str.replace(c, d) for one-character c, d.
Replace(s, c, d) == [i \in 1..Len(s) |-> IF s[i] = c THEN d ELSE s[i]]

\* str.lstrip(chars), str.rstrip(chars), str.strip(chars)
RECURSIVE LStrip(_, _)
LStrip(s, chars) ==
    IF s # <<>> /\ Head(s) \in chars THEN LStrip(Tail(s), chars) ELSE s

RECURSIVE RStrip(_, _)
RStrip(s, chars) ==
    IF s # <<>> /\ Last(s) \in chars THEN RStrip(ButLast(s), chars) ELSE s

Strip(s, chars) == LStrip(RStrip(s, chars), chars)

DigitChar == <<"0", "1", "2", "3", "4", "5", "6", "7", "8", "9">>

\* "%s" % n for an int n >= 0: its decimal digits.
RECURSIVE ToStr(_)
ToStr(n) ==
    IF n < 10 THEN <<DigitChar[n + 1]>>
    ELSE ToStr(n \div 10) \o <<DigitChar[(n % 10) + 1]>>

-----------------------------------------------------------------------------
(* os.path (posixpath) *)

Slash == <<"/">>
Dot == <<".">>
DotDot == <<".", ".">>

isabs(s) == StartsWith(s, Slash)

\* posixpath.normpath: the loop over the components.
RECURSIVE NormComps(_, _, _)
NormComps(comps, new_comps, initial_slashes) ==
    IF comps = <<>> THEN new_comps
    ELSE LET comp == Head(comps)
             rest == Tail(comps)
         IN  IF comp \in {<<>>, Dot}
             THEN NormComps(rest, new_comps, initial_slashes)
             ELSE IF \/ comp # DotDot
                     \/ (initial_slashes = 0 /\ new_comps = <<>>)
                     \/ (new_comps # <<>> /\ Last(new_comps) = DotDot)
             THEN NormComps(rest, Append(new_comps, comp), initial_slashes)
             ELSE IF new_comps # <<>>
             THEN NormComps(rest, ButLast(new_comps), initial_slashes)
             ELSE NormComps(rest, new_comps, initial_slashes)

normpath(s) ==
    IF s = <<>> THEN Dot
    ELSE LET initial_slashes ==
                 IF ~StartsWith(s, Slash) THEN 0
                 ELSE IF StartsWith(s, <<"/", "/">>)
                         /\ ~StartsWith(s, <<"/", "/", "/">>) THEN 2
                 ELSE 1
             comps == NormComps(SplitOn(s, "/"), <<>>, initial_slashes)
             joined == JoinWith(Slash, comps)
             out == [i \in 1..initial_slashes |-> "/"] \o joined
         IN  IF out = <<>> THEN Dot ELSE out

\* posixpath.join(a, b)
join(a, b) ==
    IF StartsWith(b, Slash) THEN b
    ELSE IF a = <<>> \/ Last(a) = "/" THEN a \o b
    ELSE a \o Slash \o b

\* The head of posixpath.split: everything up to the last slash, with the
\* trailing slashes dropped unless the head is nothing but slashes.
SplitHead(s) ==
    LET head == SubSeq(s, 1, RFind(s, "/"))
    IN  IF head # <<>> /\ \E i \in 1..Len(head) : head[i] # "/"
        THEN RStrip(head, {"/"})
        ELSE head

\* posixpath.split(s) = <<head, tail>>
split(s) == <<SplitHead(s), SubSeq(s, RFind(s, "/") + 1, Len(s))>>

dirname(s) == SplitHead(s)

\* posixpath.splitext(s) = <<root, ext>>: the extension starts at the last
\* dot of the last component, unless only dots precede it there.
splitext(s) ==
    LET sepIndex == RFind(s, "/")
        dotIndex == RFind(s, ".")
    IN  IF /\ dotIndex > sepIndex
           /\ \E i \in (sepIndex + 1)..(dotIndex - 1) : s[i] # "."
        THEN <<SubSeq(s, 1, dotIndex - 1), SubSeq(s, dotIndex, Len(s))>>
        ELSE <<s, <<>>>>

-----------------------------------------------------------------------------
(* werkzeug.secure_filename, flask.safe_join *)

\* _filename_ascii_strip_re = [^A-Za-z0-9_.-]
FilenameChars ==
    {"a", "b", "c", "d", "e", "f", "g", "h", "i", "j", "k", "l", "m",
     "n", "o", "p", "q", "r", "s", "t", "u", "v", "w", "x", "y", "z",
     "0", "1", "2", "3", "4", "5", "6", "7", "8", "9", "_", ".", "-"}

NotFound == <<"NotFound">>

\* secure_filename: separators become spaces, runs of whitespace become one
\* underscore, every character outside FilenameChars is dropped, and the
\* dots and underscores at both ends are stripped.
secure_filename(filename) ==
    LET spaced == Replace(filename, "/", " ")
        words == SelectSeq(SplitOn(spaced, " "), LAMBDA w : w # <<>>)
        joined == JoinWith(<<"_">>, words)
        ascii == SelectSeq(joined, LAMBDA c : c \in FilenameChars)
    IN  Strip(ascii, {".", "_"})

\* safe_join that looks at the filename as given, not at its normal form.
safe_join_raw(directory, filename) ==
    IF isabs(filename) \/ filename = DotDot
          \/ StartsWith(filename, <<".", ".", "/">>)
    THEN NotFound
    ELSE join(directory, filename)

\* flask.safe_join(directory, filename): NotFound when the normalised
\* filename is absolute, is "..", or starts with "../".
safe_join(directory, filename) ==
    LET f == normpath(filename)
    IN  IF isabs(f) \/ f = DotDot \/ StartsWith(f, <<".", ".", "/">>)
        THEN NotFound
        ELSE join(directory, f)


-----------------------------------------------------------------------------
(* The file tree and the system calls on it *)

\* FileSystemStorage.location, an absolute normalised directory.
location == <<"/", "r">>

None == <<"None">>
SuspiciousFileOperation == <<"SuspiciousFileOperation">>
True == <<"True">>
False == <<"False">>

\* None as a permission mode or a size.
NoMode == -1

\* mode & ~mask
RECURSIVE AndNot(_, _)
AndNot(mode, mask) ==
    IF mode = 0 THEN 0
    ELSE (IF mode % 2 = 1 /\ mask % 2 = 0 THEN 1 ELSE 0)
         + 2 * AndNot(mode \div 2, mask \div 2)

\* ino names the open file description that created a file: the creating
\* thread, or 0 for a file that was there before any call.
FileEntry(data, mode, ino) ==
    [kind |-> "file", data |-> data, mode |-> mode, ino |-> ino]

DirEntry(mode) == [kind |-> "dir", data |-> <<>>, mode |-> mode, ino |-> 0]

os_path_exists(f, pth) == pth \in DOMAIN f

os_path_isdir(f, pth) == pth \in DOMAIN f /\ f[pth].kind = "dir"

\* A system call's outcome: the errno ("" on success) and the tree after it.
Outcome(errno, f) == [errno |-> errno, fs |-> f]

\* os.open(pth, O_WRONLY | O_CREAT | O_TRUNC, mode): what the exclusive
\* create would be without O_EXCL.
os_open_trunc(f, pth, mode, mask, ino) ==
    IF pth \in DOMAIN f /\ f[pth].kind = "dir" THEN Outcome("EISDIR", f)
    ELSE IF ~os_path_isdir(f, dirname(pth)) THEN Outcome("ENOENT", f)
    ELSE IF pth \in DOMAIN f
    THEN Outcome("", [f EXCEPT ![pth] = FileEntry(<<>>, f[pth].mode, ino)])
    ELSE Outcome("", (pth :> FileEntry(<<>>, AndNot(mode, mask), ino)) @@ f)

\* os.open(pth, O_WRONLY | O_CREAT | O_EXCL, mode): atomically EEXIST when pth
\* names any entry, else a new empty file of mode & ~umask.
os_open_excl(f, pth, mode, mask, ino) ==
    IF pth \in DOMAIN f THEN Outcome("EEXIST", f)
    ELSE IF dirname(pth) \notin DOMAIN f THEN Outcome("ENOENT", f)
    ELSE IF f[dirname(pth)].kind # "dir" THEN Outcome("ENOTDIR", f)
    ELSE Outcome("", (pth :> FileEntry(<<>>, AndNot(mode, mask), ino)) @@ f)

\* os.mkdir(pth, mode)
os_mkdir(f, pth, mode, mask) ==
    IF pth \in DOMAIN f THEN Outcome("EEXIST", f)
    ELSE IF dirname(pth) \notin DOMAIN f THEN Outcome("ENOENT", f)
    ELSE IF f[dirname(pth)].kind # "dir" THEN Outcome("ENOTDIR", f)
    ELSE Outcome("", (pth :> DirEntry(AndNot(mode, mask))) @@ f)

\* os.remove(pth)
os_remove(f, pth) ==
    IF pth \notin DOMAIN f THEN Outcome("ENOENT", f)
    ELSE IF f[pth].kind = "dir" THEN Outcome("EISDIR", f)
    ELSE Outcome("", [q \in DOMAIN f \ {pth} |-> f[q]])

\* os.path.getsize(pth) of an entry that is there: st_size, the number of
\* bytes of a file (a directory's is the file system's own, 0 here).
os_path_getsize(f, pth) == Len(f[pth].data)

\* os.chmod(pth, mode)
os_chmod(f, pth, mode) ==
    IF pth \notin DOMAIN f THEN Outcome("ENOENT", f)
    ELSE Outcome("", [f EXCEPT ![pth].mode = mode])

\* write(fd, bytes) on the descriptor of the file that ino created at pth:
\* the bytes reach the entry at pth while it still is that file (an unlinked
\* file takes them out of the tree's sight).
fd_write(f, pth, ino, bytes) ==
    IF pth \in DOMAIN f /\ f[pth].kind = "file" /\ f[pth].ino = ino
    THEN [f EXCEPT ![pth].data = @ \o bytes]
    ELSE f

\* os.makedirs(name): the directories it has to make, outermost first; it
\* descends while the head does not exist.
RECURSIVE MakedirsChain(_, _)
MakedirsChain(f, d) ==
    LET head == split(d)[1]
        tail == split(d)[2]
    IN  IF head # <<>> /\ tail # <<>> /\ ~os_path_exists(f, head)
        THEN Append(MakedirsChain(f, head), d)
        ELSE <<d>>

\* The heads os.makedirs(name) probes with os.path.exists on its way up.
RECURSIVE MakedirsProbed(_, _)
MakedirsProbed(f, d) ==
    LET head == split(d)[1]
        tail == split(d)[2]
    IN  IF head # <<>> /\ tail # <<>>
        THEN {head} \cup (IF os_path_exists(f, head) THEN {}
                          ELSE MakedirsProbed(f, head))
        ELSE {}

-----------------------------------------------------------------------------
(* FileSystemStorage.path *)

\* FileSystemStorage.path(name): SuspiciousFileOperation when safe_join
\* raises NotFound, else the normalised join.
path(name) ==
    LET joined == safe_join(location, name)
    IN  IF joined = NotFound THEN SuspiciousFileOperation
        ELSE normpath(joined)


-----------------------------------------------------------------------------
(* Threads *)

\* Two threads of one process, each making one call on the shared storage.
Threads == {1, 2}

\* chunked_iterator's default chunk_size, 64 * 2 ** 10.
DefaultChunkSize == 65536

\* The third argument of os.open in _save, 0o666.
OpenMode == 438

\* The default mode of os.makedirs, 0o777.
MakedirsMode == 511

\* A readable source: its bytes, the read position, whether it has seek().
Source(data, pos, seekable) ==
    [data |-> data, pos |-> pos, seekable |-> seekable, closed |-> FALSE]

NoSource == Source(<<>>, 0, FALSE)

\* A thread outside any call.
Idle ==
    [op |-> "none", pc |-> "idle", arg |-> None, name |-> None,
     content |-> NoSource, chunk_size |-> 0,
     dir_name |-> None, file_root |-> None, file_ext |-> None, count |-> 0,
     full_path |-> None, directory |-> None, old_umask |-> NoMode,
     mk |-> <<>>, fd |-> "none", file |-> "none", buf |-> <<>>,
     locked |-> FALSE, chunk |-> <<>>, yielded |-> <<>>,
     exc |-> "none", e |-> "none", err |-> "none", result |-> None,
     size |-> NoMode, given |-> NoSource, touched |-> {}, created |-> FALSE]

\* Of these fields, given (the source as it was handed over), touched (the
\* paths the call has passed to the operating system) and created (whether
\* the call's os.open made a file) record what the call did; e is the
\* OSError an except clause has caught, exc the exception a finally block
\* runs under, err the exception the call has raised.

\* The first position of each operation.
Entry(op) ==
    CASE op = "save" -> "gan_split"
      [] op = "get_available_name" -> "gan_split"
      [] op = "_save" -> "save_path"
      [] op = "chunked_iterator" -> "seek"
      [] OTHER -> op

\* A thread enters op(name, content) (chunk_size for chunked_iterator).
Call(p, op, name, content, chunk_size) ==
    /\ proc[p].pc = "idle"
    /\ proc' = [proc EXCEPT ![p] =
                  [Idle EXCEPT !.op = op, !.pc = Entry(op), !.arg = name,
                               !.name = name, !.content = content,
                               !.given = content,
                               !.chunk_size = chunk_size]]
    /\ UNCHANGED <<fs, umask, config>>

\* OSError with its errno, as the name the exception is known by.
OSError(errno) ==
    CASE errno = "EEXIST" -> "OSError.EEXIST"
      [] errno = "ENOENT" -> "OSError.ENOENT"
      [] errno = "ENOTDIR" -> "OSError.ENOTDIR"
      [] errno = "EISDIR" -> "OSError.EISDIR"
      [] errno = "EACCES" -> "OSError.EACCES"
      [] errno = "EPERM" -> "OSError.EPERM"

Raise(r, e) == [r EXCEPT !.pc = "raised", !.err = e]

Return(r, v) == [r EXCEPT !.pc = "returned", !.result = v]

Touch(r, paths) == [r EXCEPT !.touched = @ \cup paths]

-----------------------------------------------------------------------------
(* FileSystemStorage.path, exists, size, _open as calls *)

Path(p) ==
    LET r == proc[p]
        fp == path(r.name)
    IN  /\ r.pc = "path"
        /\ proc' = [proc EXCEPT ![p] =
                      IF fp = SuspiciousFileOperation
                      THEN Raise(r, "SuspiciousFileOperation")
                      ELSE Return(r, fp)]
        /\ UNCHANGED <<fs, umask, config>>

Exists(p) ==
    LET r == proc[p]
        fp == path(r.name)
    IN  /\ r.pc = "exists"
        /\ proc' = [proc EXCEPT ![p] =
                      IF fp = SuspiciousFileOperation
                      THEN Raise(r, "SuspiciousFileOperation")
                      ELSE Return(Touch([r EXCEPT !.full_path = fp], {fp}),
                                  IF os_path_exists(fs, fp) THEN True
                                  ELSE False)]
        /\ UNCHANGED <<fs, umask, config>>

\* os.path.getsize(self.path(name)): OSError when nothing is there.
Size(p) ==
    LET r == proc[p]
        fp == path(r.name)
    IN  /\ r.pc = "size"
        /\ proc' = [proc EXCEPT ![p] =
                      IF fp = SuspiciousFileOperation
                      THEN Raise(r, "SuspiciousFileOperation")
                      ELSE LET t == Touch([r EXCEPT !.full_path = fp], {fp})
                           IN  IF os_path_exists(fs, fp)
                               THEN [Return(t, None) EXCEPT
                                        !.size = os_path_getsize(fs, fp)]
                               ELSE Raise(t, "OSError.ENOENT")]
        /\ UNCHANGED <<fs, umask, config>>

\* open(path, 'rb')
Open(p) ==
    LET r == proc[p]
        fp == path(r.name)
    IN  /\ r.pc = "open"
        /\ proc' = [proc EXCEPT ![p] =
                      IF fp = SuspiciousFileOperation
                      THEN Raise(r, "SuspiciousFileOperation")
                      ELSE LET t == Touch([r EXCEPT !.full_path = fp], {fp})
                           IN  IF ~os_path_exists(fs, fp)
                               THEN Raise(t, "IOError.ENOENT")
                               ELSE IF fs[fp].kind = "dir"
                               THEN Raise(t, "IOError.EISDIR")
                               ELSE Return(t, fp)]
        /\ UNCHANGED <<fs, umask, config>>

-----------------------------------------------------------------------------
(* FileSystemStorage.delete *)

\* assert name; name = self.path(name); if os.path.exists(name):
DeleteCheck(p) ==
    LET r == proc[p]
        fp == path(r.name)
    IN  /\ r.pc = "delete"
        /\ proc' = [proc EXCEPT ![p] =
                      IF r.name = <<>> THEN Raise(r, "AssertionError")
                      ELSE IF fp = SuspiciousFileOperation
                      THEN Raise(r, "SuspiciousFileOperation")
                      ELSE LET t == Touch([r EXCEPT !.full_path = fp], {fp})
                           IN  IF os_path_exists(fs, fp)
                               THEN [t EXCEPT !.pc = "remove"]
                               ELSE Return(t, None)]
        /\ UNCHANGED <<fs, umask, config>>

\* delete without its except clause: every OSError of os.remove is raised.
delete_without_except(r, errno) ==
    IF errno = "" THEN Return(r, None)
    ELSE Raise([r EXCEPT !.e = errno], OSError(errno))

\* What delete does with the outcome of os.remove: ENOENT is swallowed.
delete_after_remove(r, errno) ==
    IF errno = "" THEN Return(r, None)
    ELSE IF errno = "ENOENT" THEN Return([r EXCEPT !.e = errno], None)
    ELSE Raise([r EXCEPT !.e = errno], OSError(errno))

\* try: os.remove(name) except OSError as e: if e.errno != ENOENT: raise
\* A file that is there may also refuse to go (EACCES).
DeleteRemove(p) ==
    LET r == proc[p]
        out == os_remove(fs, r.full_path)
    IN  /\ r.pc = "remove"
        /\ \/ /\ fs' = out.fs
              /\ proc' = [proc EXCEPT ![p] =
                            delete_after_remove(Touch(r, {r.full_path}),
                                                out.errno)]
           \/ /\ out.errno = ""
              /\ fs' = fs
              /\ proc' = [proc EXCEPT ![p] =
                            delete_after_remove(Touch(r, {r.full_path}),
                                                "EACCES")]
        /\ UNCHANGED <<umask, config>>

-----------------------------------------------------------------------------
(* Storage.get_available_name, and the first half of Storage.save *)

\* dir_name, file_name = os.path.split(secure_filename(name))
\* file_root, file_ext = os.path.splitext(file_name); count = itertools.count(1)
GanSplit(p) ==
    LET r == proc[p]
        parts == split(secure_filename(r.name))
        rootext == splitext(parts[2])
    IN  /\ r.pc = "gan_split"
        /\ proc' = [proc EXCEPT ![p] =
                      [r EXCEPT !.pc = "gan_probe", !.dir_name = parts[1],
                                !.file_root = rootext[1],
                                !.file_ext = rootext[2], !.count = 1]]
        /\ UNCHANGED <<fs, umask, config>>

\* The number put after the extension instead of before it.
next_name_after_ext(dir_name, file_root, count, file_ext) ==
    join(dir_name, file_root \o file_ext \o <<"_">> \o ToStr(count))

\* The suffix without next(count): always 1.
next_name_fixed(dir_name, file_root, count, file_ext) ==
    join(dir_name, file_root \o <<"_", "1">> \o file_ext)

\* os.path.join(dir_name, "%s_%s%s" % (file_root, next(count), file_ext))
next_name(dir_name, file_root, count, file_ext) ==
    join(dir_name, file_root \o <<"_">> \o ToStr(count) \o file_ext)

\* get_available_name reserving the name it returns: it creates the file.
GanProbeReserving(p) ==
    LET r == proc[p]
        fp == path(r.name)
        t == Touch(r, {fp})
        free == fp # SuspiciousFileOperation /\ ~os_path_exists(fs, fp)
    IN  /\ r.pc = "gan_probe"
        /\ proc' = [proc EXCEPT ![p] =
                      IF fp = SuspiciousFileOperation
                      THEN Raise(r, "SuspiciousFileOperation")
                      ELSE IF os_path_exists(fs, fp)
                      THEN [t EXCEPT !.name = next_name(r.dir_name,
                                                        r.file_root, r.count,
                                                        r.file_ext),
                                     !.count = @ + 1]
                      ELSE IF r.op = "save"
                      THEN [t EXCEPT !.pc = "save_path"]
                      ELSE Return(t, r.name)]
        /\ fs' = IF free /\ r.op # "save"
                 THEN os_open_excl(fs, fp, OpenMode, umask, p).fs
                 ELSE fs
        /\ UNCHANGED <<umask, config>>

\* while self.exists(name): name = ...; return name
\* save goes on into _save with the name returned.
GanProbe(p) ==
    LET r == proc[p]
        fp == path(r.name)
        t == Touch(r, {fp})
    IN  /\ r.pc = "gan_probe"
        /\ proc' = [proc EXCEPT ![p] =
                      IF fp = SuspiciousFileOperation
                      THEN Raise(r, "SuspiciousFileOperation")
                      ELSE IF os_path_exists(fs, fp)
                      THEN [t EXCEPT !.name = next_name(r.dir_name,
                                                        r.file_root, r.count,
                                                        r.file_ext),
                                     !.count = @ + 1]
                      ELSE IF r.op = "save"
                      THEN [t EXCEPT !.pc = "save_path"]
                      ELSE Return(t, r.name)]
        /\ UNCHANGED <<fs, umask, config>>


-----------------------------------------------------------------------------
(* FileSystemStorage._save: the directory *)

\* full_path = self.path(name); directory = os.path.dirname(full_path)
SavePath(p) ==
    LET r == proc[p]
        fp == path(r.name)
    IN  /\ r.pc = "save_path"
        /\ proc' = [proc EXCEPT ![p] =
                      IF fp = SuspiciousFileOperation
                      THEN Raise(r, "SuspiciousFileOperation")
                      ELSE [r EXCEPT !.pc = "dir_exists", !.full_path = fp,
                                     !.directory = dirname(fp)]]
        /\ UNCHANGED <<fs, umask, config>>

\* if not os.path.exists(directory): ... if directory_permissions_mode is
\* not None: old_umask = os.umask(0) ... else: os.makedirs(directory)
SaveDirExists(p) ==
    LET r == proc[p]
        t == Touch(r, {r.directory})
    IN  /\ r.pc = "dir_exists"
        /\ proc' = [proc EXCEPT ![p] =
                      IF os_path_exists(fs, r.directory)
                      THEN [t EXCEPT !.pc = "isdir"]
                      ELSE IF config.directory_permissions_mode # NoMode
                      THEN [t EXCEPT !.pc = "umask0"]
                      ELSE [t EXCEPT !.pc = "makedirs"]]
        /\ UNCHANGED <<fs, umask, config>>

\* old_umask = os.umask(0)
SaveUmask0(p) ==
    LET r == proc[p]
    IN  /\ r.pc = "umask0"
        /\ umask' = 0
        /\ proc' = [proc EXCEPT ![p] =
                      [r EXCEPT !.pc = "makedirs", !.old_umask = umask]]
        /\ UNCHANGED <<fs, config>>

\* The except clause of os.makedirs without its errno test: EEXIST is raised
\* like any other OSError.
after_makedirs_strict(r, errno, dir_mode) ==
    LET pending == IF errno = "" THEN "none" ELSE OSError(errno)
        left == [r EXCEPT !.mk = <<>>,
                          !.e = IF errno = "" THEN @ ELSE errno]
    IN  IF dir_mode # NoMode
        THEN [left EXCEPT !.pc = "umask_restore", !.exc = pending]
        ELSE IF pending = "none" THEN [left EXCEPT !.pc = "isdir"]
        ELSE Raise(left, pending)

\* Where _save goes when os.makedirs is over with errno ("" for none):
\* through finally: os.umask(old_umask) when the mode is configured, then
\* except OSError as e: if e.errno != errno.EEXIST: raise
after_makedirs(r, errno, dir_mode) ==
    LET pending == IF errno \in {"", "EEXIST"} THEN "none"
                   ELSE OSError(errno)
        left == [r EXCEPT !.mk = <<>>,
                          !.e = IF errno = "" THEN @ ELSE errno]
    IN  IF dir_mode # NoMode
        THEN [left EXCEPT !.pc = "umask_restore", !.exc = pending]
        ELSE IF pending = "none" THEN [left EXCEPT !.pc = "isdir"]
        ELSE Raise(left, pending)

\* os.makedirs(directory[, mode]), one os.mkdir a step: it makes the missing
\* directories from the outermost in, passes over EEXIST for all but the
\* last, and raises what the last os.mkdir raises.
SaveMakedirs(p) ==
    LET r == proc[p]
        entering == r.mk = <<>>
        chain == IF entering THEN MakedirsChain(fs, r.directory) ELSE r.mk
        probed == IF entering THEN MakedirsProbed(fs, r.directory) ELSE {}
        d == Head(chain)
        rest == Tail(chain)
        mode == IF config.directory_permissions_mode # NoMode
                THEN config.directory_permissions_mode
                ELSE MakedirsMode
        out == os_mkdir(fs, d, mode, umask)
        t == Touch(r, probed \cup {d})
    IN  /\ r.pc = "makedirs"
        /\ fs' = out.fs
        /\ proc' = [proc EXCEPT ![p] =
                      IF rest # <<>> /\ out.errno \in {"", "EEXIST"}
                      THEN [t EXCEPT !.mk = rest]
                      ELSE after_makedirs(t, out.errno,
                                          config.directory_permissions_mode)]
        /\ UNCHANGED <<umask, config>>

\* finally: os.umask(old_umask)
SaveUmaskRestore(p) ==
    LET r == proc[p]
    IN  /\ r.pc = "umask_restore"
        /\ umask' = r.old_umask
        /\ proc' = [proc EXCEPT ![p] =
                      IF r.exc = "none" THEN [r EXCEPT !.pc = "isdir"]
                      ELSE Raise([r EXCEPT !.exc = "none"], r.exc)]
        /\ UNCHANGED <<fs, config>>

\* if not os.path.isdir(directory): raise IOError(...)
SaveIsDir(p) ==
    LET r == proc[p]
        t == Touch(r, {r.directory})
    IN  /\ r.pc = "isdir"
        /\ proc' = [proc EXCEPT ![p] =
                      IF os_path_isdir(fs, r.directory)
                      THEN [t EXCEPT !.pc = "os_open"]
                      ELSE Raise(t, "IOError.notadirectory")]
        /\ UNCHANGED <<fs, umask, config>>

-----------------------------------------------------------------------------
(* FileSystemStorage._save: the file *)

\* fd = os.open(full_path, O_WRONLY | O_CREAT | O_EXCL, 0o666); _file = None
SaveOpen(p) ==
    LET r == proc[p]
        out == os_open_excl(fs, r.full_path, OpenMode, umask, p)
        t == Touch(r, {r.full_path})
    IN  /\ r.pc = "os_open"
        /\ fs' = out.fs
        /\ proc' = [proc EXCEPT ![p] =
                      IF out.errno = ""
                      THEN [t EXCEPT !.pc = "lock", !.fd = "open",
                                     !.created = TRUE]
                      ELSE Raise(t, OSError(out.errno))]
        /\ UNCHANGED <<umask, config>>

\* locks.lock(fd, locks.LOCK_EX): the descriptor is of a file no other call
\* has open, so the lock is free; taking it may still fail (IOError).
SaveLock(p) ==
    LET r == proc[p]
    IN  /\ r.pc = "lock"
        /\ \E fails \in BOOLEAN :
             proc' = [proc EXCEPT ![p] =
                        IF fails
                        THEN [r EXCEPT !.pc = "close_content",
                                       !.exc = "IOError.lock"]
                        ELSE [r EXCEPT !.pc = "seek", !.locked = TRUE]]
        /\ UNCHANGED <<fs, umask, config>>

-----------------------------------------------------------------------------
(* chunked_iterator, alone and as the loop of _save *)

\* if not chunk_size: chunk_size = 64 * 2 ** 10
effective_chunk_size(chunk_size) ==
    IF chunk_size = 0 THEN DefaultChunkSize ELSE chunk_size

\* chunked_iterator without its content.seek(0).
source_no_seek(c) == c

\* try: content.seek(0) except (AttributeError, UnsupportedOperation): pass
source_seek0(c) == IF c.seekable THEN [c EXCEPT !.pos = 0] ELSE c

\* content.read(n): the next n bytes, fewer at the end of the source.
source_read(c, n) ==
    SubSeq(c.data, c.pos + 1, IF c.pos + n > Len(c.data) THEN Len(c.data)
                              ELSE c.pos + n)

IterSeek(p) ==
    LET r == proc[p]
    IN  /\ r.pc = "seek"
        /\ proc' = [proc EXCEPT ![p] =
                      [r EXCEPT !.pc = "read",
                                !.content = source_seek0(r.content)]]
        /\ UNCHANGED <<fs, umask, config>>

\* Where the generator's consumer goes with what the read gave: the for
\* loop of _save writes the chunk, and leaves for finally at the end or on
\* an exception; a caller of chunked_iterator alone takes the next chunk.
after_read(r, data, failed) ==
    LET got == [r EXCEPT !.chunk = data,
                         !.content.pos = @ + Len(data),
                         !.yielded = IF data = <<>> THEN @
                                     ELSE Append(@, data)]
    IN  IF r.op = "chunked_iterator"
        THEN IF failed THEN Raise(r, "IOError.read")
             ELSE IF data = <<>> THEN Return(got, None)
             ELSE got
        ELSE IF failed
             THEN [r EXCEPT !.pc = "close_content", !.exc = "IOError.read"]
             ELSE IF data = <<>> THEN [got EXCEPT !.pc = "close_content"]
             ELSE [got EXCEPT !.pc = "write"]

\* data = content.read(chunk_size); if not data: break; yield data
IterRead(p) ==
    LET r == proc[p]
        data == source_read(r.content, effective_chunk_size(r.chunk_size))
    IN  /\ r.pc = "read"
        /\ \E failed \in BOOLEAN :
             proc' = [proc EXCEPT ![p] = after_read(r, data, failed)]
        /\ UNCHANGED <<fs, umask, config>>

-----------------------------------------------------------------------------
(* FileSystemStorage._save: writing and the finally block *)

\* if _file is None: _file = os.fdopen(fd, mode); _file.write(chunk)
\* The file object buffers: the chunk stays in its buffer or the buffer is
\* written out at once, as the sizes have it. A failed write leaves the
\* chunk unwritten.
SaveWrite(p) ==
    LET r == proc[p]
        opened == [r EXCEPT !.file = "open"]
    IN  /\ r.pc = "write"
        /\ \/ /\ proc' = [proc EXCEPT ![p] =
                            [opened EXCEPT !.pc = "read",
                                           !.buf = @ \o r.chunk]]
              /\ fs' = fs
           \/ /\ proc' = [proc EXCEPT ![p] =
                            [opened EXCEPT !.pc = "read", !.buf = <<>>]]
              /\ fs' = fd_write(fs, r.full_path, p, r.buf \o r.chunk)
           \/ /\ proc' = [proc EXCEPT ![p] =
                            [opened EXCEPT !.pc = "close_content",
                                           !.exc = "IOError.write"]]
              /\ fs' = fs
        /\ UNCHANGED <<umask, config>>

\* finally: content.close(): an exception of close() leaves the finally
\* block at once, with the lock held and the descriptor open.
SaveCloseContent(p) ==
    LET r == proc[p]
    IN  /\ r.pc = "close_content"
        /\ \E fails \in BOOLEAN :
             proc' = [proc EXCEPT ![p] =
                        IF fails THEN Raise(r, "IOError.close")
                        ELSE [r EXCEPT !.pc = "unlock",
                                       !.content.closed = TRUE]]
        /\ UNCHANGED <<fs, umask, config>>

\* locks.unlock(fd)
SaveUnlock(p) ==
    LET r == proc[p]
    IN  /\ r.pc = "unlock"
        /\ proc' = [proc EXCEPT ![p] =
                      [r EXCEPT !.pc = "close_file", !.locked = FALSE]]
        /\ UNCHANGED <<fs, umask, config>>

\* os.close(fd) whether or not there is a file object: what the file object
\* has buffered is lost.
SaveCloseDescriptor(p) ==
    LET r == proc[p]
        closed == [r EXCEPT !.fd = "closed", !.buf = <<>>]
    IN  /\ r.pc = "close_file"
        /\ fs' = fs
        /\ proc' = [proc EXCEPT ![p] =
                      IF r.exc # "none"
                      THEN Raise([closed EXCEPT !.exc = "none"], r.exc)
                      ELSE [closed EXCEPT !.pc = "chmod"]]
        /\ UNCHANGED <<umask, config>>

\* if _file is not None: _file.close() else: os.close(fd)
\* Closing the file object writes its buffer out. The pending exception of
\* the try block is raised again after the finally block.
SaveCloseFile(p) ==
    LET r == proc[p]
        closed == [r EXCEPT !.fd = "closed", !.buf = <<>>,
                            !.file = IF @ = "open" THEN "closed" ELSE @]
    IN  /\ r.pc = "close_file"
        /\ fs' = fd_write(fs, r.full_path, p, r.buf)
        /\ proc' = [proc EXCEPT ![p] =
                      IF r.exc # "none"
                      THEN Raise([closed EXCEPT !.exc = "none"], r.exc)
                      ELSE [closed EXCEPT !.pc = "chmod"]]
        /\ UNCHANGED <<umask, config>>

\* if self.file_permissions_mode is not None: os.chmod(full_path, mode)
\* return name
SaveChmod(p) ==
    LET r == proc[p]
        out == os_chmod(fs, r.full_path, config.file_permissions_mode)
        t == Touch(r, {r.full_path})
    IN  /\ r.pc = "chmod"
        /\ IF config.file_permissions_mode = NoMode
           THEN /\ fs' = fs
                /\ proc' = [proc EXCEPT ![p] = Return(r, r.name)]
           ELSE \/ /\ fs' = out.fs
                   /\ proc' = [proc EXCEPT ![p] =
                                 IF out.errno = "" THEN Return(t, r.name)
                                 ELSE Raise(t, OSError(out.errno))]
                \/ /\ out.errno = ""
                   /\ fs' = fs
                   /\ proc' = [proc EXCEPT ![p] = Raise(t, OSError("EPERM"))]
        /\ UNCHANGED <<umask, config>>


-----------------------------------------------------------------------------
(* The trees, the names and the contents the calls are made on *)

\* The umask of the process before any call, 0o022.
InitialUmask == 18

\* The modes of the entries that are there before any call: 0o755, 0o644.
OldDirMode == 493
OldFileMode == 420

\* What a file that is there before any call holds.
OldData == <<90, 91>>

BaseTree == (Slash :> DirEntry(OldDirMode)) @@ (location :> DirEntry(OldDirMode))

WithFile(f, name) == (path(name) :> FileEntry(OldData, OldFileMode, 0)) @@ f

WithDir(f, name) == (path(name) :> DirEntry(OldDirMode)) @@ f

\* The bytes thread p hands over: n bytes, no two alike.
Content(p, n) == [i \in 1..n |-> 10 * p + i]

\* SERVATUS_UPLOAD_DIR_PERMISSIONS and SERVATUS_FILE_UPLOAD_PERMISSIONS:
\* None, or 0o775 and 0o600.
NoModes == [directory_permissions_mode |-> NoMode,
            file_permissions_mode |-> NoMode]

BothModes == [directory_permissions_mode |-> 509,
              file_permissions_mode |-> 384]

Configs == {NoModes, BothModes}

\* Every str of at most n characters of the alphabet.
RECURSIVE StrsUpTo(_, _)
StrsUpTo(alphabet, n) ==
    IF n = 0 THEN {<<>>}
    ELSE LET shorter == StrsUpTo(alphabet, n - 1)
         IN  shorter \cup {Append(s, c) : s \in shorter, c \in alphabet}

\* Names of the concurrent calls: a, d/a, d/b.
StoreNames == {<<"a">>, <<"d", "/", "a">>, <<"d", "/", "b">>}

\* Trees of the concurrent calls: empty; a; a and a_1; the directory d;
\* d with d/a in it; a file named d.
Stores ==
    {BaseTree,
     WithFile(BaseTree, <<"a">>),
     WithFile(WithFile(BaseTree, <<"a">>), <<"a", "_", "1">>),
     WithDir(BaseTree, <<"d">>),
     WithFile(WithDir(BaseTree, <<"d">>), <<"d", "/", "a">>),
     WithFile(BaseTree, <<"d">>)}

\* Names of the single-threaded calls: every str over this alphabet, and
\* photo.jpg and readme.
PathChars == {"a", ".", "/", " "}

PhotoJpg == <<"p", "h", "o", "t", "o", ".", "j", "p", "g">>
Photo1Jpg == <<"p", "h", "o", "t", "o", "_", "1", ".", "j", "p", "g">>
Photo2Jpg == <<"p", "h", "o", "t", "o", "_", "2", ".", "j", "p", "g">>
Readme == <<"r", "e", "a", "d", "m", "e">>
Readme1 == <<"r", "e", "a", "d", "m", "e", "_", "1">>

PathNames == StrsUpTo(PathChars, MaxNameLen) \cup {PhotoJpg, Readme}

RECURSIVE WithFiles(_, _)
WithFiles(f, names) ==
    IF names = <<>> THEN f
    ELSE WithFiles(WithFile(f, Head(names)), Tail(names))

\* Trees of the single-threaded calls: empty; a and a.a; a, a_1, a.a,
\* a_1.a, photo.jpg, photo_1.jpg and readme; the directory a with a/a in it.
PathStores ==
    {BaseTree,
     WithFiles(BaseTree, << <<"a">>, <<"a", ".", "a">> >>),
     WithFiles(BaseTree, << <<"a">>, <<"a", "_", "1">>, <<"a", ".", "a">>,
                            <<"a", "_", "1", ".", "a">>,
                            PhotoJpg, Photo1Jpg, Readme >>),
     WithFile(WithDir(BaseTree, <<"a">>), <<"a", "/", "a">>)}

-----------------------------------------------------------------------------
(* The calls *)

\* Storage.save(name, content) by a thread, on a seekable source.
CallSave(p) ==
    /\ proc[p].pc = "idle"
    /\ \E name \in StoreNames, n \in {0, MaxContentLen} :
        Call(p, "save", name, Source(Content(p, n), 0, TRUE), 0)

\* FileSystemStorage._save(name, content) by a thread.
CallSaveRaw(p) ==
    /\ proc[p].pc = "idle"
    /\ \E name \in StoreNames, n \in {0, MaxContentLen} :
        Call(p, "_save", name, Source(Content(p, n), 0, TRUE), 0)

\* FileSystemStorage.delete(name) by a thread; d names a directory in some
\* trees.
CallDelete(p) ==
    /\ proc[p].pc = "idle"
    /\ \E name \in StoreNames \cup {<<"d">>} :
        Call(p, "delete", name, NoSource, 0)

\* One call of any operation on any name, by the first thread alone.
CallOne ==
    /\ proc[1].pc = "idle"
    /\ \/ \E op \in {"path", "exists", "size", "open", "delete",
                     "get_available_name"}, name \in PathNames :
              Call(1, op, name, NoSource, 0)
       \/ \E op \in {"save", "_save"}, name \in PathNames :
              Call(1, op, name, Source(Content(1, MaxContentLen), 0, TRUE), 0)

\* Longest source and largest chunk_size handed to chunked_iterator alone.
MaxSourceLen == 10
MaxChunkSize == 4

\* chunked_iterator(content, chunk_size) on a source at any position;
\* chunk_size 0 stands for None.
CallChunkedIterator ==
    /\ proc[1].pc = "idle"
    /\ \E n \in 0..MaxSourceLen, seekable \in BOOLEAN, c \in 0..MaxChunkSize :
        \E pos \in 0..n :
            Call(1, "chunked_iterator", <<>>,
                 Source(Content(1, n), pos, seekable), c)

-----------------------------------------------------------------------------
(* Specifications *)

Start(trees, configs) ==
    /\ fs \in trees
    /\ umask = InitialUmask
    /\ config \in configs
    /\ proc = [p \in Threads |-> Idle]

AllocStep(p) == GanSplit(p) \/ GanProbe(p)

DeleteStep(p) == DeleteCheck(p) \/ DeleteRemove(p)

SaveStep(p) ==
    \/ SavePath(p) \/ SaveDirExists(p) \/ SaveUmask0(p) \/ SaveMakedirs(p)
    \/ SaveUmaskRestore(p) \/ SaveIsDir(p) \/ SaveOpen(p) \/ SaveLock(p)
    \/ IterSeek(p) \/ IterRead(p) \/ SaveWrite(p) \/ SaveCloseContent(p)
    \/ SaveUnlock(p) \/ SaveCloseFile(p) \/ SaveChmod(p)

\* Two threads saving and deleting on one storage.
Init == Start(Stores, Configs)

Next ==
    \E p \in Threads :
        \/ CallSave(p) \/ CallDelete(p)
        \/ AllocStep(p) \/ SaveStep(p) \/ DeleteStep(p)

Spec == Init /\ [][Next]_vars

\* Two threads saving on one storage that nothing is deleted from.
NextSave == \E p \in Threads : CallSave(p) \/ AllocStep(p) \/ SaveStep(p)

SpecSave == Init /\ [][NextSave]_vars

\* Two threads in _save, past get_available_name, nothing deleted.
NextRaw == \E p \in Threads : CallSaveRaw(p) \/ SaveStep(p)

SpecRaw == Init /\ [][NextRaw]_vars

\* One call of one thread, of any operation on any name.
InitPath == Start(PathStores, {BothModes})

NextPath ==
    \/ CallOne
    \/ \E p \in Threads :
        \/ Path(p) \/ Exists(p) \/ Size(p) \/ Open(p)
        \/ AllocStep(p) \/ SaveStep(p) \/ DeleteStep(p)

SpecPath == InitPath /\ [][NextPath]_vars

\* chunked_iterator alone.
InitChunk == Start({BaseTree}, {NoModes})

NextChunk ==
    \/ CallChunkedIterator
    \/ \E p \in Threads : IterSeek(p) \/ IterRead(p)

SpecChunk == InitChunk /\ [][NextChunk]_vars


\* Two threads in _save on names in directories that are not there yet, or
\* that a file stands in the way of: d/a, d/b, d/e/a on an empty tree and on
\* one where d is a file.
DirNames == {<<"d", "/", "a">>, <<"d", "/", "b">>,
             <<"d", "/", "e", "/", "a">>}

DirStores == {BaseTree, WithFile(BaseTree, <<"d">>)}

CallSaveDir(p) ==
    /\ proc[p].pc = "idle"
    /\ \E name \in DirNames :
        Call(p, "_save", name, Source(Content(p, 1), 0, TRUE), 0)

InitDir == Start(DirStores, Configs)

NextDir == \E p \in Threads : CallSaveDir(p) \/ SaveStep(p)

SpecDir == InitDir /\ [][NextDir]_vars

\* Two threads saving and deleting a and d/a, a thread going from a delete
\* that is over to a save: a file can be removed while its writer is
\* writing, and the name taken again.
DelNames == {<<"a">>, <<"d", "/", "a">>}

DelStores == {BaseTree, WithFile(BaseTree, <<"a">>)}

CallSaveDel(p) ==
    /\ proc[p].pc = "idle"
    /\ \E name \in DelNames :
        Call(p, "save", name, Source(Content(p, 1), 0, TRUE), 0)

CallDeleteDel(p) ==
    /\ proc[p].pc = "idle"
    /\ \E name \in DelNames : Call(p, "delete", name, NoSource, 0)

\* save(name, content) by a thread whose delete(name) is over.
CallSaveAfterDelete(p) ==
    LET content == Source(Content(p, 1), 0, TRUE)
    IN  /\ proc[p].op = "delete"
        /\ proc[p].pc \in {"returned", "raised"}
        /\ \E name \in DelNames :
             proc' = [proc EXCEPT ![p] =
                        [Idle EXCEPT !.op = "save", !.pc = Entry("save"),
                                     !.arg = name, !.name = name,
                                     !.content = content,
                                     !.given = content]]
        /\ UNCHANGED <<fs, umask, config>>

InitDel == Start(DelStores, Configs)

NextDel ==
    \E p \in Threads :
        \/ CallSaveDel(p) \/ CallDeleteDel(p) \/ CallSaveAfterDelete(p)
        \/ AllocStep(p) \/ SaveStep(p) \/ DeleteStep(p)

SpecDel == InitDel /\ [][NextDel]_vars

-----------------------------------------------------------------------------
(* What the claims speak of *)

Finished(p) == proc[p].pc \in {"returned", "raised"}

\* s is t cut short.
IsPrefix(s, t) == Len(s) <= Len(t) /\ SubSeq(t, 1, Len(s)) = s

\* Two calls of op on names that resolve to one path.
SamePath(p, q, op) ==
    /\ p # q
    /\ proc[p].op = op /\ proc[q].op = op
    /\ proc[p].full_path # None
    /\ proc[p].full_path = proc[q].full_path

-----------------------------------------------------------------------------
(* C1 *)

\* C1: of two _save calls on one resolved path, with nothing else acting on
\* the path, at most one creates the file and returns; once one has created
\* it, the other, when it is over, has raised the already-exists OSError at
\* os.open, has no descriptor, and the file holds bytes of the creator only.
C1_AtMostOneSaveCreates ==
    \A p, q \in Threads :
        SamePath(p, q, "_save") =>
            /\ ~(proc[p].created /\ proc[q].created)
            /\ ~(proc[p].pc = "returned" /\ proc[q].pc = "returned")
            /\ (proc[p].pc = "returned" => proc[p].created)
            /\ (proc[p].created /\ Finished(q)) =>
                  /\ proc[q].pc = "raised"
                  /\ proc[q].err = "OSError.EEXIST"
                  /\ proc[q].fd = "none"
                  /\ proc[q].yielded = <<>>
                  /\ fs[proc[p].full_path].ino = p
                  /\ IsPrefix(fs[proc[p].full_path].data,
                              proc[p].given.data)

\* Both calls are over: one returned, the other met EEXIST at os.open.
C1_Witness ==
    \E p, q \in Threads :
        /\ SamePath(p, q, "_save")
        /\ proc[p].pc = "returned"
        /\ proc[p].given.data # <<>> /\ proc[q].given.data # <<>>
        /\ proc[q].pc = "raised" /\ proc[q].err = "OSError.EEXIST"

-----------------------------------------------------------------------------
(* C3 *)

\* The files that were there before any call still hold what they held.
OldFilesIntact ==
    \A pth \in DOMAIN fs :
        (fs[pth].kind = "file" /\ fs[pth].ino = 0) => fs[pth].data = OldData

\* The step of os.open in _save, on a path that names an entry, raises the
\* already-exists OSError and leaves the whole tree as it was.
OpenOnExistingFails ==
    \A p \in Threads :
        (/\ proc[p].pc = "os_open"
         /\ proc'[p].pc # "os_open"
         /\ proc[p].full_path \in DOMAIN fs) =>
            /\ proc'[p].pc = "raised"
            /\ proc'[p].err = "OSError.EEXIST"
            /\ ~proc'[p].created
            /\ fs' = fs

\* C3: _save never truncates or modifies a file that is already there: on a
\* path that names an entry its os.open raises the already-exists OSError,
\* the tree is the same after the step as before it, and the bytes of every
\* file that was there before the calls stay what they were.
C3_NeverTruncates == []OldFilesIntact /\ [][OpenOnExistingFails]_vars

\* _save has met a file that was there before the calls, and it is intact.
C3_Witness ==
    \E p \in Threads :
        /\ proc[p].op = "_save"
        /\ proc[p].pc = "raised" /\ proc[p].err = "OSError.EEXIST"
        /\ proc[p].given.data # <<>>
        /\ proc[p].full_path \in DOMAIN fs
        /\ fs[proc[p].full_path].ino = 0
        /\ fs[proc[p].full_path].data = OldData


-----------------------------------------------------------------------------
(* C2 *)

\* C2, as the specification states it: of two concurrent save calls with one
\* desired name, each gets a name that its own creation succeeds for, so no
\* save meets the already-exists OSError at os.open, and two that return
\* return distinct names.
C2_ConcurrentSavesBothSucceed ==
    \A p, q \in Threads :
        (p # q /\ proc[p].op = "save" /\ proc[q].op = "save"
               /\ proc[p].arg = proc[q].arg) =>
            /\ proc[p].err # "OSError.EEXIST"
            /\ (proc[p].pc = "returned" /\ proc[q].pc = "returned")
                  => proc[p].result # proc[q].result

-----------------------------------------------------------------------------
(* C9 *)

\* C9: when save has returned the name r and nothing else has touched r,
\* r exists, the file at r holds the bytes of the content in their order,
\* and its size is their number; an empty content leaves a file of size 0.
C9_SavedFileHoldsContent ==
    \A p \in Threads :
        (proc[p].op = "save" /\ proc[p].pc = "returned") =>
            LET r == path(proc[p].result)
            IN  /\ os_path_exists(fs, r)
                /\ fs[r].kind = "file"
                /\ fs[r].data = proc[p].given.data
                /\ os_path_getsize(fs, r) = Len(proc[p].given.data)

\* Two saves have returned, one of an empty content, one of a longer one.
C9_Witness ==
    \E p, q \in Threads :
        /\ proc[p].op = "save" /\ proc[p].pc = "returned"
        /\ proc[q].op = "save" /\ proc[q].pc = "returned"
        /\ proc[p].given.data = <<>>
        /\ Len(proc[q].given.data) = MaxContentLen
        /\ os_path_getsize(fs, path(proc[p].result)) = 0
        /\ os_path_getsize(fs, path(proc[q].result)) = MaxContentLen

-----------------------------------------------------------------------------
(* C7 *)

\* A step of delete, from its existence check or from its os.remove.
DeleteActs(p) ==
    /\ proc[p].op = "delete"
    /\ proc[p].pc \in {"delete", "remove"}
    /\ proc'[p].pc # proc[p].pc

\* With the file absent at the step, delete returns and changes nothing;
\* os.remove of a directory raises; and delete raises only what os.remove
\* raised on an entry that was there, never the does-not-exist OSError.
DeleteToleratesAbsence ==
    \A p \in Threads :
        DeleteActs(p) =>
            LET pth == path(proc[p].name)
            IN  /\ pth \notin DOMAIN fs =>
                      (proc'[p].pc = "returned" /\ fs' = fs)
                /\ (proc[p].pc = "remove" /\ pth \in DOMAIN fs
                        /\ fs[pth].kind = "dir") =>
                      (proc'[p].pc = "raised"
                          /\ proc'[p].err = "OSError.EISDIR" /\ fs' = fs)
                /\ proc'[p].pc = "raised" =>
                      /\ pth \in DOMAIN fs
                      /\ proc'[p].err \in {"OSError.EISDIR", "OSError.EACCES"}
                      /\ fs' = fs
                /\ (proc'[p].pc = "returned" /\ pth \in DOMAIN fs) =>
                      (proc[p].pc = "remove" /\ pth \notin DOMAIN fs')

\* C7: delete of a non-empty name returns without raising whenever the file
\* is absent: absent at the call, its directory missing, or removed by
\* another delete between the existence check and os.remove; every error of
\* os.remove other than does-not-exist is raised to the caller.
C7_DeleteToleratesAbsence == [][DeleteToleratesAbsence]_vars

\* Two deletes of one file that was there have both returned: the os.remove
\* of one found the file gone (ENOENT caught), the other removed it.
C7_Witness ==
    \E p, q \in Threads :
        /\ SamePath(p, q, "delete")
        /\ proc[p].pc = "returned" /\ proc[q].pc = "returned"
        /\ proc[p].e = "ENOENT" /\ proc[q].e = "none"
        /\ proc[p].full_path \notin DOMAIN fs


-----------------------------------------------------------------------------
(* C4 *)

\* pth is the storage root or lies below it.
UnderRoot(pth) == pth = location \/ StartsWith(pth, location \o Slash)

\* What path() gave a call lies under the root.
ResolvedUnderRoot(p) ==
    /\ proc[p].full_path # None => UnderRoot(proc[p].full_path)
    /\ (proc[p].op = "path" /\ proc[p].pc = "returned")
          => UnderRoot(proc[p].result)

\* C4, as the specification states it: what path() returns lies under the
\* root, and so does every path that exists, delete, size, _open and _save
\* pass to the operating system.
C4_EveryAccessUnderRoot ==
    \A p \in Threads :
        /\ ResolvedUnderRoot(p)
        /\ \A t \in proc[p].touched : UnderRoot(t)

-----------------------------------------------------------------------------
(* C5 *)

\* name has a ".." segment somewhere.
HasDotDot(name) ==
    \E i \in 1..Len(SplitOn(name, "/")) : SplitOn(name, "/")[i] = DotDot

\* Walking the segments from depth levels below the start, a ".." is met at
\* the start itself.
RECURSIVE ClimbsOut(_, _)
ClimbsOut(comps, depth) ==
    IF comps = <<>> THEN FALSE
    ELSE IF Head(comps) \in {<<>>, Dot} THEN ClimbsOut(Tail(comps), depth)
    ELSE IF Head(comps) = DotDot
    THEN depth = 0 \/ ClimbsOut(Tail(comps), depth - 1)
    ELSE ClimbsOut(Tail(comps), depth + 1)

\* name leaves the root: it is absolute, or its segments climb above the
\* directory they start in.
Escapes(name) == isabs(name) \/ ClimbsOut(SplitOn(name, "/"), 0)

\* The call was refused by path(): SuspiciousFileOperation, or the call has
\* not come to path() yet; nothing was passed to the operating system.
Refused(p) ==
    /\ proc[p].pc \in {Entry(proc[p].op), "gan_probe", "raised"}
    /\ proc[p].pc = "raised" => proc[p].err = "SuspiciousFileOperation"
    /\ proc[p].touched = {}
    /\ ~proc[p].created

\* C5, as the specification states it: a call on a name with a ".." segment
\* anywhere in it, or on an absolute name, is refused.
C5_AnyDotDotRefused ==
    \A p \in Threads :
        (proc[p].op # "none"
            /\ (HasDotDot(proc[p].arg) \/ isabs(proc[p].arg))) => Refused(p)

EscapingRefused ==
    \A p \in Threads :
        (proc[p].op # "none" /\ Escapes(proc[p].arg)) => Refused(p)

EscapingChangesNothing ==
    (\E p \in Threads : proc[p].op # "none" /\ Escapes(proc[p].arg))
        => (fs' = fs /\ umask' = umask)

\* C5, amended: a call (path, exists, delete, size, open, save, _save,
\* get_available_name) on a name that is absolute or whose segments climb
\* above the root fails with SuspiciousFileOperation, passes nothing to the
\* operating system and changes nothing; a name whose ".." segments stay
\* inside the root (a/..) is resolved like any other.
C5_EscapingNameRefused == []EscapingRefused /\ [][EscapingChangesNothing]_vars

\* save was refused for a relative name that climbs out after a first
\* segment that does not.
C5_Witness ==
    \E p \in Threads :
        /\ proc[p].op = "save"
        /\ proc[p].pc = "raised"
        /\ proc[p].err = "SuspiciousFileOperation"
        /\ ~isabs(proc[p].arg)
        /\ ~StartsWith(proc[p].arg, DotDot)
        /\ Escapes(proc[p].arg)

-----------------------------------------------------------------------------
(* C6 *)

\* The k-th name of the sequence name, stem_1+ext, stem_2+ext, ..., the stem
\* and the extension being those of the sanitized name.
Candidate(name, k) ==
    LET sanitized == secure_filename(name)
        stem == splitext(sanitized)[1]
        ext == splitext(sanitized)[2]
    IN  IF k = 0 THEN name ELSE stem \o <<"_">> \o ToStr(k) \o ext

Occupied(name) == os_path_exists(fs, path(name))

-----------------------------------------------------------------------------
(* C10 *)

\* C10, as the specification states it: the name get_available_name returns
\* is the sanitized desired name, directory kept, or dir/stem_k+ext for a
\* k >= 1, (dir, stem, ext) being the split of the desired name; it is the
\* sanitized name when the desired name is free, and it is in the directory
\* of the desired name.
C10_SanitizedAndInDirectory ==
    \A p \in Threads :
        (proc[p].op = "get_available_name" /\ proc[p].pc = "returned") =>
            LET dir == split(proc[p].arg)[1]
                base == secure_filename(split(proc[p].arg)[2])
                stem == splitext(base)[1]
                ext == splitext(base)[2]
                sanitized == join(dir, base)
            IN  /\ \/ proc[p].result = sanitized
                   \/ \E k \in 1..Cardinality(DOMAIN fs) :
                         proc[p].result =
                             join(dir, stem \o <<"_">> \o ToStr(k) \o ext)
                /\ ~Occupied(proc[p].arg) => proc[p].result = sanitized
                /\ split(proc[p].result)[1] = dir

-----------------------------------------------------------------------------
(* C8 *)

\* The chunks one after the other.
RECURSIVE Concat(_)
Concat(chunks) ==
    IF chunks = <<>> THEN <<>> ELSE Head(chunks) \o Concat(Tail(chunks))

\* C8: chunked_iterator(source, c), c >= 1, rewinds a seekable source to 0
\* wherever it stands and reads another from where it stands; it yields
\* non-empty chunks of at most c bytes, all but the last of c bytes, which
\* put together are the source from there on; it ends at the first empty
\* read and raises only what a read raises; 10 bytes by 4 give 4, 4, 2.
C8_ChunksCoverSource ==
    \A p \in Threads :
        (proc[p].op = "chunked_iterator" /\ proc[p].chunk_size >= 1
            /\ proc[p].pc \in {"read", "returned", "raised"}) =>
            LET r == proc[p]
                c == r.chunk_size
                start == IF r.given.seekable THEN 0 ELSE r.given.pos
                n == Len(r.yielded)
            IN  /\ \A i \in 1..n : Len(r.yielded[i]) \in 1..c
                /\ \A i \in 1..(n - 1) : Len(r.yielded[i]) = c
                /\ Concat(r.yielded) = SubSeq(r.given.data, start + 1,
                                              r.content.pos)
                /\ r.pc = "returned" =>
                      /\ r.content.pos = Len(r.given.data)
                      /\ r.chunk = <<>>
                      /\ n = (Len(r.given.data) - start + c - 1) \div c
                /\ r.pc = "raised" => r.err = "IOError.read"
                /\ (r.pc = "returned" /\ r.given.seekable
                        /\ Len(r.given.data) = 10 /\ c = 4) =>
                      [i \in 1..n |-> Len(r.yielded[i])] = <<4, 4, 2>>

\* A seekable 10-byte source that stood in its middle gave 4, 4, 2 bytes.
C8_Witness ==
    \E p \in Threads :
        /\ proc[p].op = "chunked_iterator" /\ proc[p].pc = "returned"
        /\ proc[p].given.seekable /\ proc[p].given.pos = 5
        /\ Len(proc[p].given.data) = 10 /\ proc[p].chunk_size = 4
        /\ Len(proc[p].yielded) = 3
        /\ Concat(proc[p].yielded) = proc[p].given.data

-----------------------------------------------------------------------------
(* C11 *)

\* The bytes at pth of the file that p created, <<>> when it is not there.
WrittenBy(f, p, pth) ==
    IF pth \in DOMAIN f /\ f[pth].kind = "file" /\ f[pth].ino = p
    THEN f[pth].data ELSE <<>>

\* A step in which bytes of p's content reach the file p created.
BytesReachFile(p) ==
    /\ proc[p].op = "_save"
    /\ proc[p].created
    /\ WrittenBy(fs', p, proc[p].full_path)
          # WrittenBy(fs, p, proc[p].full_path)

\* C11: in _save the advisory lock covers the whole write: every byte of the
\* content that reaches the file, the bytes the file object writes out when
\* it is closed among them, reaches it while the call holds the lock.
C11_LockCoversWrite ==
    [][\A p \in Threads : BytesReachFile(p) => proc[p].locked]_vars

-----------------------------------------------------------------------------
(* C12 *)

\* C12: once _save has created the file, every way out of _save (success,
\* an exception of the lock, the read, the write, or of closing the source)
\* leaves the lock released and the descriptor closed.
C12_NoDescriptorOutlivesCall ==
    \A p \in Threads :
        (proc[p].op = "_save" /\ proc[p].created /\ Finished(p)) =>
            /\ proc[p].fd = "closed"
            /\ ~proc[p].locked

-----------------------------------------------------------------------------
(* C14 *)

\* C14: whenever _save is over, with its result or with any error, the
\* content handed to it has been closed.
C14_ContentClosedOnEveryExit ==
    \A p \in Threads :
        (proc[p].op = "_save" /\ Finished(p)) => proc[p].content.closed

-----------------------------------------------------------------------------
(* C13 *)

\* The exceptions of the try block of _save: of the lock, a read, a write.
TryErrors == {"IOError.lock", "IOError.read", "IOError.write"}

\* The exception the try block of a call ended with, "none" if it had none:
\* it is pending while the finally block runs and raised after it.
TryError(p) ==
    IF proc[p].exc \in TryErrors THEN proc[p].exc
    ELSE IF proc[p].err \in TryErrors THEN proc[p].err
    ELSE "none"

\* The chunks a call has written: those it was given, but for the one whose
\* write failed.
ChunksWritten(p) ==
    IF TryError(p) = "IOError.write"
    THEN Concat(ButLast(proc[p].yielded))
    ELSE Concat(proc[p].yielded)

\* C13: a _save that fails after it has created the file leaves the file in
\* place: after an exception of the lock, a read or a write that exception
\* is the one raised and the file holds exactly the chunks written before
\* it; after a failed os.chmod the file holds the whole content.
C13_FailedSaveKeepsFile ==
    \A p \in Threads :
        (proc[p].op = "_save" /\ proc[p].created /\ proc[p].pc = "raised") =>
            /\ os_path_exists(fs, proc[p].full_path)
            /\ fs[proc[p].full_path].kind = "file"
            /\ fs[proc[p].full_path].ino = p
            /\ TryError(p) # "none" =>
                  /\ proc[p].err = TryError(p)
                  /\ fs[proc[p].full_path].data = ChunksWritten(p)
            /\ (TryError(p) = "none" /\ proc[p].err # "IOError.close") =>
                  fs[proc[p].full_path].data = proc[p].given.data

-----------------------------------------------------------------------------
(* C15 *)

\* C15: _save does not fail because a concurrent call made the directory
\* first: the call that gets EEXIST from os.makedirs goes on to the
\* exclusive create and, when it returns, has written its file; any other
\* error of os.makedirs is raised, and a parent that is there but is not a
\* directory makes _save raise, both before any file is opened.
C15_DirectoryRaceTolerated ==
    \A p \in Threads :
        LET r == proc[p]
        IN  r.op = "_save" =>
              /\ (r.pc = "raised" /\ r.full_path \notin r.touched) =>
                    \/ r.err = "SuspiciousFileOperation"
                    \/ r.err = "IOError.notadirectory"
                    \/ r.e \notin {"none", "EEXIST"} /\ r.err = OSError(r.e)
              /\ (r.e = "EEXIST" /\ Finished(p)) =>
                    r.full_path \in r.touched
              /\ (r.e = "EEXIST" /\ r.pc = "returned") =>
                    WrittenBy(fs, p, r.full_path) = r.given.data
              /\ r.e \notin {"none", "EEXIST"} =>
                    /\ r.pc \in {"umask_restore", "raised"}
                    /\ r.pc = "raised" => r.err = OSError(r.e)
                    /\ ~r.created
                    /\ r.full_path \notin r.touched
              /\ r.err = "IOError.notadirectory" =>
                    /\ ~os_path_isdir(fs, r.directory)
                    /\ ~r.created
                    /\ r.full_path \notin r.touched

\* Two calls on different names in one directory that was not there have
\* both returned, one of them after EEXIST from os.makedirs.
C15_Witness ==
    \E p, q \in Threads :
        /\ p # q
        /\ proc[p].op = "_save" /\ proc[q].op = "_save"
        /\ proc[p].pc = "returned" /\ proc[q].pc = "returned"
        /\ proc[p].directory = proc[q].directory
        /\ proc[p].full_path # proc[q].full_path
        /\ proc[p].e = "EEXIST" /\ proc[q].e = "none"
        /\ WrittenBy(fs, p, proc[p].full_path) = proc[p].given.data
        /\ WrittenBy(fs, q, proc[q].full_path) = proc[q].given.data

-----------------------------------------------------------------------------
(* C16 *)

\* A step of a get_available_name or exists call of p.
ProbeStep(p) ==
    /\ proc'[p].op \in {"get_available_name", "exists"}
    /\ proc'[p] # proc[p]

\* C16: get_available_name and exists leave the store as it is: no step of
\* either call creates, changes or removes an entry, so the entries and what
\* they hold are after the call what they were before it.
C16_ProbesLeaveStoreUnchanged ==
    [][\A p \in Threads : ProbeStep(p) => fs' = fs]_vars

\* get_available_name has returned a suffixed name after finding others
\* taken, and the tree is one of those the calls start on.
C16_Witness ==
    \E p \in Threads :
        /\ proc[p].op = "get_available_name"
        /\ proc[p].pc = "returned"
        /\ proc[p].count > 2
        /\ fs \in PathStores
        /\ ~Occupied(proc[p].result)

-----------------------------------------------------------------------------
(* C17 *)

\* The call of p is a save under way that has made its file.
PastCreate(p) ==
    /\ proc[p].op \in {"save", "_save"}
    /\ proc[p].created
    /\ ~Finished(p)

\* C17: whatever saves and deletes run on a path, a delete while a writer
\* is writing among them, no two calls at once hold an open descriptor on a
\* file they made at that path, and no two calls are at once past the
\* exclusive create at it, from where both would succeed.
C17_OneWriterPerPath ==
    \A p, q \in Threads :
        (p # q /\ proc[p].full_path # None
            /\ proc[p].full_path = proc[q].full_path) =>
            /\ ~(/\ PastCreate(p) /\ proc[p].fd = "open"
                 /\ PastCreate(q) /\ proc[q].fd = "open")
            /\ ~(PastCreate(p) /\ PastCreate(q))

-----------------------------------------------------------------------------
(* C18 *)

\* The call of p is between its os.umask(0) and its os.umask(old_umask).
UmaskSetToZero(p) ==
    /\ proc[p].op = "_save"
    /\ proc[p].pc \in {"makedirs", "umask_restore"}
    /\ config.directory_permissions_mode # NoMode

\* No call is under way.
AllCallsOver == \A p \in Threads : proc[p].pc \in {"idle", "returned", "raised"}

UmaskRestored == AllCallsOver => umask = InitialUmask

\* The step in which p creates its file is not inside another call's
\* umask(0) window.
CreatesOutsideWindow ==
    \A p \in Threads :
        (~proc[p].created /\ proc'[p].created) =>
            ~\E q \in Threads \ {p} : UmaskSetToZero(q)

\* C18: with a directory permission mode configured, _save calls running in
\* threads of one process preserve the umask: once all calls are over the
\* umask is what it was before the first, and no call creates its file
\* while another has the umask set to 0.
C18_UmaskPreserved == []UmaskRestored /\ [][CreatesOutsideWindow]_vars

-----------------------------------------------------------------------------
(* C19 *)

\* The entries the store holds: the paths below the root.
StoreEntries(f) == {pth \in DOMAIN f : StartsWith(pth, location \o Slash)}

\* The existence probes a get_available_name call has made: count - 1 that
\* found the name taken, and the one that found it free once it returned.
Probes(p) ==
    IF proc[p].pc = "returned" THEN proc[p].count ELSE proc[p].count - 1

\* The suffix of the name a call is at: 0 for the desired name itself.
Suffix(p) == proc[p].count - 1

\* C19, as the specification states it: in a store of N entries that no one
\* else creates files in, get_available_name makes at most N + 1 existence
\* probes and the suffix it returns is at most N.
C19_AtMostNPlusOneProbes ==
    \A p \in Threads :
        (proc[p].op = "get_available_name" /\ proc[p].pc # "gan_split") =>
            /\ Probes(p) <= Cardinality(StoreEntries(fs)) + 1
            /\ Suffix(p) <= Cardinality(StoreEntries(fs))

\* 1 for a name that resolves to the root itself, which the root directory
\* occupies, 0 for any other.
RootProbe(name) == IF path(name) = location THEN 1 ELSE 0

\* C19, amended: in a store of N entries that no one else creates files in,
\* get_available_name makes at most N + 1 existence probes and returns a
\* suffix of at most N, one more of each for a name that resolves to the
\* storage root itself.
C19_ProbesBoundedByEntries ==
    \A p \in Threads :
        (proc[p].op = "get_available_name" /\ proc[p].pc # "gan_split") =>
            /\ Probes(p) <= Cardinality(StoreEntries(fs)) + 1
                              + RootProbe(proc[p].arg)
            /\ Suffix(p) <= Cardinality(StoreEntries(fs))
                              + RootProbe(proc[p].arg)

\* In a store of two entries, a and a.a, get_available_name came back with
\* the suffix 1 after two probes.
C19_Witness ==
    \E p \in Threads :
        /\ proc[p].op = "get_available_name"
        /\ proc[p].pc = "returned"
        /\ Cardinality(StoreEntries(fs)) = 2
        /\ RootProbe(proc[p].arg) = 0
        /\ Probes(p) = 2
        /\ Suffix(p) = 1

=============================================================================
